---- MODULE Spec2Model ----
(***************************************************************************)
(* Model of the smart file organizer (src/main.py): classifier, hasher,    *)
(* index, scanner, placer, deduplicator, pruner, pass orchestrator and     *)
(* watch loop, over an in-memory filesystem.                               *)
(*                                                                         *)
(* A directory is a sequence of path segments. A file path is a record     *)
(* [dir, name]; a file name is a record [stem, sfx, ext] where stem is a   *)
(* sequence of tokens, sfx the sequence of " (n)" collision suffixes that  *)
(* follow the stem, and ext the extension (Path.suffix).                  *)
(***************************************************************************)
EXTENDS Naturals, Sequences, FiniteSets, TLC

VARIABLES
    cfg,          \* Config: destination, dry_run, recursive, keep_empty, sort_mode
    files,        \* filesystem: file path -> [content, month]
    dirs,         \* filesystem: set of existing directories
    disk_index,   \* persisted index file: [kind, data], data: digest -> path
    pc,           \* position of watch_loop / organize_pass
    index,        \* organize_pass: the in-memory index
    todo,         \* organize_pass: candidates of the snapshot not yet processed
    log,          \* organize_pass: one entry per processed candidate, in order
    moved,        \* organize_pass: counter
    duplicates,   \* organize_pass: counter
    pre,          \* history: the disk as it was when the current pass started
    hist,         \* history: passes finished, last results, environment budget
    bk_in,        \* source_bucket: the input path
    bk_out        \* source_bucket: the result ("" before the call)

vars == <<cfg, files, dirs, disk_index, pc, index, todo, log, moved, duplicates,
          pre, hist, bk_in, bk_out>>

----------------------------------------------------------------------------
(* Bounds of the model *)

MaxPasses == 2     \* passes the watch loop is followed for
MaxAdds == 1       \* files the environment drops into the source
MaxFaults == 1     \* files the environment deletes, and I/O failures it injects
MaxStem == 2       \* tokens in a file name given to source_bucket

----------------------------------------------------------------------------
(* Strings: str.lower(), substring and prefix tests on tokens *)

Lower(s) ==
    CASE s = "WhatsApp" -> "whatsapp"
      [] s = "WhatsApp Images" -> "whatsapp images"
      [] s = "Discord" -> "discord"
      [] s = "Screenshot" -> "screenshot"
      [] s = "Snip" -> "snip"
      [] s = "IMG_" -> "img_"
      [] s = "PXL_" -> "pxl_"
      [] s = "Firefox" -> "firefox"
      [] s = "Teams" -> "teams"
      [] s = "Zoom" -> "zoom"
      [] s = "Chrome" -> "chrome"
      [] s = ".GIT" -> ".git"
      [] s = ".PNG" -> ".png"
      [] s = ".PART" -> ".part"
      [] s = ".Torrent" -> ".torrent"
      [] OTHER -> s

\* needle in token, for a lower-cased token
TokenContains(token, needle) ==
    \/ token = needle
    \/ token = "whatsapp images" /\ needle = "whatsapp"
    \/ token = "knowledge" /\ needle = "edge"

\* token.startswith(prefix), for a lower-cased token
TokenStartsWith(token, prefix) ==
    \/ token = prefix
    \/ token = "whatsapp images" /\ prefix = "whatsapp"

\* needle in path.name.lower()
NameContains(name, needle) ==
    \E i \in 1..Len(name.stem) : TokenContains(Lower(name.stem[i]), needle)

\* path.name.lower().startswith(prefix)
NameStartsWith(name, prefix) ==
    Len(name.stem) > 0 /\ TokenStartsWith(Lower(name.stem[1]), prefix)

\* needle in str(path.parent).lower()
ParentContains(dir, needle) ==
    \E i \in 1..Len(dir) : TokenContains(Lower(dir[i]), needle)

----------------------------------------------------------------------------
(* Classifier *)

EXTENSION_MAP ==
    [images |-> {".jpg", ".jpeg", ".png", ".gif", ".bmp", ".webp", ".svg", ".heic"},
     videos |-> {".mp4", ".mov", ".avi", ".mkv", ".webm", ".wmv"},
     audio |-> {".mp3", ".wav", ".flac", ".aac", ".ogg", ".m4a"},
     documents |-> {".pdf", ".txt", ".rtf", ".md"},
     spreadsheets |-> {".csv", ".xls", ".xlsx", ".ods"},
     presentations |-> {".ppt", ".pptx", ".key", ".odp"},
     archives |-> {".zip", ".rar", ".7z", ".tar", ".gz", ".bz2"},
     code |-> {".py", ".js", ".ts", ".jsx", ".tsx", ".html", ".css", ".java",
               ".c", ".cpp", ".go", ".rs", ".php", ".json", ".yaml", ".yml", ".sql"},
     executables |-> {".exe", ".msi", ".bat", ".cmd", ".ps1"}]

classify_file(path) ==
    LET ext == Lower(path.name.ext)
    IN  IF \E c \in DOMAIN EXTENSION_MAP : ext \in EXTENSION_MAP[c]
        THEN CHOOSE c \in DOMAIN EXTENSION_MAP : ext \in EXTENSION_MAP[c]
        ELSE "other"

\* source_bucket with the browser test placed before the screenshot test
source_bucket_browser_first(path) ==
    LET name == path.name
        parent == path.dir
        ext == Lower(path.name.ext)
    IN  IF NameContains(name, "whatsapp") \/ ParentContains(parent, "whatsapp")
        THEN "whatsapp"
        ELSE IF NameContains(name, "telegram") \/ ParentContains(parent, "telegram")
        THEN "telegram"
        ELSE IF NameContains(name, "discord") \/ ParentContains(parent, "discord")
        THEN "discord"
        ELSE IF NameContains(name, "slack") \/ ParentContains(parent, "slack")
        THEN "slack"
        ELSE IF NameContains(name, "chrome") \/ NameContains(name, "edge")
                \/ NameContains(name, "firefox")
        THEN "browser_downloads"
        ELSE IF NameStartsWith(name, "screenshot") \/ NameContains(name, "screen shot")
                \/ NameStartsWith(name, "snip")
        THEN "screenshots"
        ELSE IF NameStartsWith(name, "img_") \/ NameStartsWith(name, "dsc_")
                \/ NameStartsWith(name, "pxl_")
        THEN "camera_exports"
        ELSE IF ext \in {".crdownload", ".part"}
        THEN "browser_partial_downloads"
        ELSE IF NameContains(name, "zoom") \/ NameContains(name, "meeting")
                \/ NameContains(name, "teams")
        THEN "meetings"
        ELSE IF ext \in {".torrent"}
        THEN "torrent"
        ELSE "manual_or_unknown"

source_bucket(path) ==
    LET name == path.name
        parent == path.dir
        ext == Lower(path.name.ext)
    IN  IF NameContains(name, "whatsapp") \/ ParentContains(parent, "whatsapp")
        THEN "whatsapp"
        ELSE IF NameContains(name, "telegram") \/ ParentContains(parent, "telegram")
        THEN "telegram"
        ELSE IF NameContains(name, "discord") \/ ParentContains(parent, "discord")
        THEN "discord"
        ELSE IF NameContains(name, "slack") \/ ParentContains(parent, "slack")
        THEN "slack"
        ELSE IF NameStartsWith(name, "screenshot") \/ NameContains(name, "screen shot")
                \/ NameStartsWith(name, "snip")
        THEN "screenshots"
        ELSE IF NameStartsWith(name, "img_") \/ NameStartsWith(name, "dsc_")
                \/ NameStartsWith(name, "pxl_")
        THEN "camera_exports"
        ELSE IF NameContains(name, "chrome") \/ NameContains(name, "edge")
                \/ NameContains(name, "firefox")
        THEN "browser_downloads"
        ELSE IF ext \in {".crdownload", ".part"}
        THEN "browser_partial_downloads"
        ELSE IF NameContains(name, "zoom") \/ NameContains(name, "meeting")
                \/ NameContains(name, "teams")
        THEN "meetings"
        ELSE IF ext \in {".torrent"}
        THEN "torrent"
        ELSE "manual_or_unknown"

\* datetime.fromtimestamp(st_mtime).strftime("%Y-%m"); the month is kept in the file
month_bucket(fs, path) == fs[path].month

----------------------------------------------------------------------------
(* Paths and the filesystem *)

Name(stem, ext) == [stem |-> stem, sfx |-> <<>>, ext |-> ext]
Path(dir, name) == [dir |-> dir, name |-> name]

\* d is e or an ancestor of e (Path.relative_to succeeds)
IsPrefix(d, e) == Len(d) <= Len(e) /\ SubSeq(e, 1, Len(d)) = d

\* the directories mkdir(parents=True) makes exist
Ancestors(d) == {SubSeq(d, 1, n) : n \in 1..Len(d)}

SOURCE == <<"Downloads">>
DestInside == <<"Downloads", "Organized">>
DestOutside == <<"Sorted">>

IGNORED_DIRS == {"$recycle.bin", "system volume information", ".git", "__pycache__"}
INDEX_FILENAME == [stem |-> <<".organizer_index">>, sfx |-> <<>>, ext |-> ".json"]

Digests == {"h1", "h2", "h3"}

\* hashlib.sha256 over the whole content: one digest per content
Digest(content) ==
    CASE content = "c1" -> "h1" [] content = "c2" -> "h2" [] content = "c3" -> "h3"

\* a missing dictionary key (index.get(digest) is None)
NoPath == [dir |-> <<>>, name |-> [stem |-> <<>>, sfx |-> <<>>, ext |-> ""]]
EmptyIndex == [h \in Digests |-> NoPath]

----------------------------------------------------------------------------
(* Index *)

\* What the index file holds is one of
\*   "absent"      there is no file
\*   "json"        a JSON object of strings (data: what it maps)
\*   "malformed"   text that is not JSON (json.JSONDecodeError)
\*   "not_object"  JSON that is not an object: [], null, a number, a string
\*   "not_utf8"    bytes that are not UTF-8 (read_text: UnicodeDecodeError)
IndexKinds == {"absent", "json", "malformed", "not_object", "not_utf8"}

\* what json.loads returns for JSON that is not an object: a value that has
\* neither .get nor item assignment
NotADict == [h \in Digests |->
               [dir |-> <<"[]">>, name |-> [stem |-> <<>>, sfx |-> <<>>, ext |-> ""]]]

\* UnicodeDecodeError is neither a json.JSONDecodeError nor an OSError: the
\* except clause of load_index lets it through
load_index_raises(disk) == disk.kind = "not_utf8"

load_index(disk) ==
    IF disk.kind = "absent" THEN EmptyIndex
    ELSE IF disk.kind = "malformed" THEN EmptyIndex
    ELSE IF disk.kind = "not_object" THEN NotADict
    ELSE disk.data

\* json.dumps writes back whatever value the pass holds
save_index(disk, idx, dry_run) ==
    IF dry_run THEN disk
    ELSE IF idx = NotADict THEN [kind |-> "not_object", data |-> EmptyIndex]
    ELSE [kind |-> "json", data |-> idx]

----------------------------------------------------------------------------
(* Scanner *)

\* should_ignore without the test for the destination tree
should_ignore_no_dest(fs, path, destination) ==
    \/ path \notin DOMAIN fs
    \/ \E i \in 1..Len(path.dir) : Lower(path.dir[i]) \in IGNORED_DIRS
    \/ /\ Len(path.name.stem) = 1 /\ path.name.sfx = <<>> /\ path.name.ext = ""
       /\ Lower(path.name.stem[1]) \in IGNORED_DIRS
    \/ path.name = INDEX_FILENAME

should_ignore(fs, path, destination) ==
    \/ path \notin DOMAIN fs
    \/ \E i \in 1..Len(path.dir) : Lower(path.dir[i]) \in IGNORED_DIRS
    \/ /\ Len(path.name.stem) = 1 /\ path.name.sfx = <<>> /\ path.name.ext = ""
       /\ Lower(path.name.stem[1]) \in IGNORED_DIRS
    \/ path.name = INDEX_FILENAME
    \/ IsPrefix(destination, path.dir)

\* the files source.rglob("*") or source.glob("*") yields, minus the ignored
list_candidate_files(fs, source, destination, recursive) ==
    {path \in DOMAIN fs :
        /\ IF recursive THEN IsPrefix(source, path.dir) ELSE path.dir = source
        /\ ~should_ignore(fs, path, destination)}

\* rglob lists the entries of a directory before those of its subdirectories;
\* within one directory the order is the operating system's. These are the
\* candidates that can come next among the remaining ones.
NextCandidates(remaining) ==
    {path \in remaining :
        \A q \in remaining : q.dir = path.dir \/ ~IsPrefix(q.dir, path.dir)}

----------------------------------------------------------------------------
(* Placer *)

Suffixed(target, i) == [target EXCEPT !.name.sfx = @ \o <<i>>]

\* safe_name that never looks at the disk
safe_name_overwrite(fs, target) == target

safe_name(fs, target) ==
    IF target \notin DOMAIN fs
    THEN target
    ELSE LET n == CHOOSE i \in 1..(Cardinality(DOMAIN fs) + 1) :
                      /\ Suffixed(target, i) \notin DOMAIN fs
                      /\ \A j \in 1..(i - 1) : Suffixed(target, j) \in DOMAIN fs
         IN  Suffixed(target, n)

\* shutil.move: the file leaves src and is at dst, content and mtime kept
Rename(fs, src, dst) ==
    [p \in (DOMAIN fs \ {src}) \cup {dst} |-> IF p = dst THEN fs[src] ELSE fs[p]]

\* move_file; fail is the injected I/O failure: "none", "mkdir" or "move".
\* Result: the disk afterwards, the path returned, and whether it raised.
move_file(fs, ds, src, dst, dry_run, fail) ==
    LET final == safe_name(fs, dst)
    IN  IF dry_run
        THEN [files |-> fs, dirs |-> ds, path |-> final, raised |-> FALSE]
        ELSE IF fail = "mkdir"
        THEN [files |-> fs, dirs |-> ds, path |-> final, raised |-> TRUE]
        ELSE IF fail = "move"
        THEN [files |-> fs, dirs |-> ds \cup Ancestors(final.dir), path |-> final,
              raised |-> TRUE]
        ELSE [files |-> Rename(fs, src, final), dirs |-> ds \cup Ancestors(final.dir),
              path |-> final, raised |-> FALSE]

----------------------------------------------------------------------------
(* Deduplicator *)

\* the test that makes a candidate a duplicate, without known_path.exists()
is_duplicate_no_exists(fs, known_path, path) ==
    known_path # NoPath /\ known_path # path

\* known_path and known_path.exists() and known_path.resolve() != path.resolve()
is_duplicate(fs, known_path, path) ==
    known_path # NoPath /\ known_path \in DOMAIN fs /\ known_path # path

\* organize_file on the disk (fs, ds) with the in-memory index idx; fail is the
\* injected I/O failure: "none", "hash", "mkdir" or "move". A candidate that is
\* no longer on the disk makes stat or open raise; an index that is not a
\* dictionary makes index.get raise (AttributeError), after the hashing.
organize_file(fs, ds, idx, path, c, fail) ==
    IF path \notin DOMAIN fs \/ fail = "hash"
    THEN [raised |-> TRUE, status |-> "error", files |-> fs, dirs |-> ds,
          index |-> idx, digest |-> "", month |-> "", known |-> NoPath,
          live |-> FALSE, want |-> NoPath, target |-> NoPath]
    ELSE IF idx = NotADict
    THEN [raised |-> TRUE, status |-> "error", files |-> fs, dirs |-> ds,
          index |-> idx, digest |-> "", month |-> "", known |-> NoPath,
          live |-> FALSE, want |-> NoPath, target |-> NoPath]
    ELSE
    LET category == classify_file(path)
        bucket == IF c.sort_mode = "source" THEN source_bucket(path)
                  ELSE month_bucket(fs, path)
        base_target == Path(c.destination \o <<category, bucket>>, path.name)
        digest == Digest(fs[path].content)
        known_path == idx[digest]
        live == known_path # NoPath /\ known_path \in DOMAIN fs
        dup == is_duplicate(fs, known_path, path)
        month == fs[path].month
        duplicate_target == Path(c.destination \o <<"duplicates", bucket>>, path.name)
        want == IF dup THEN duplicate_target ELSE base_target
        m == move_file(fs, ds, path, want, c.dry_run, fail)
    IN  IF m.raised
        THEN [raised |-> TRUE, status |-> "error", files |-> m.files, dirs |-> m.dirs,
              index |-> idx, digest |-> digest, month |-> month,
              known |-> known_path, live |-> live, want |-> want, target |-> NoPath]
        ELSE IF dup
        THEN [raised |-> FALSE, status |-> "duplicate", files |-> m.files,
              dirs |-> m.dirs, index |-> idx, digest |-> digest, month |-> month,
              known |-> known_path, live |-> live, want |-> want, target |-> m.path]
        ELSE [raised |-> FALSE, status |-> "moved", files |-> m.files,
              dirs |-> m.dirs, index |-> [idx EXCEPT ![digest] = m.path],
              digest |-> digest, month |-> month, known |-> known_path,
              live |-> live, want |-> want, target |-> m.path]

----------------------------------------------------------------------------
(* Pruner *)

IsEmptyDir(fs, ds, d) ==
    /\ \A p \in DOMAIN fs : p.dir # d
    /\ \A e \in ds : ~(Len(e) = Len(d) + 1 /\ IsPrefix(d, e))

MaxDepth(ds) == IF ds = {} THEN 0 ELSE CHOOSE n \in {Len(d) : d \in ds} :
                                         \A d \in ds : Len(d) <= n

\* the rmdir loop in an order that reaches every directory before the
\* directories it holds: what is removed is what was empty to begin with
PruneFrom_shallowest_first(fs, ds, root, depth) ==
    ds \ {d \in ds : IsPrefix(root, d) /\ d # root /\ IsEmptyDir(fs, ds, d)}

\* the rmdir loop from the directories of the given depth upwards to root
RECURSIVE PruneFrom(_, _, _, _)
PruneFrom(fs, ds, root, depth) ==
    IF depth <= Len(root)
    THEN ds
    ELSE LET gone == {d \in ds : /\ Len(d) = depth
                                 /\ IsPrefix(root, d)
                                 /\ IsEmptyDir(fs, ds, d)}
         IN  PruneFrom(fs, ds \ gone, root, depth - 1)

prune_empty_dirs(fs, ds, root, keep_empty) ==
    IF keep_empty THEN ds ELSE PruneFrom(fs, ds, root, MaxDepth(ds))

----------------------------------------------------------------------------
(* The initial disk *)

Report == Name(<<"report">>, ".txt")
ReportOne == [stem |-> <<"report">>, sfx |-> <<1>>, ext |-> ".txt"]   \* "report (1).txt"
F1 == Path(SOURCE, Report)
F2 == Path(SOURCE \o <<"WhatsApp Images">>, Report)
F3 == Path(SOURCE, ReportOne)
F4 == Path(SOURCE \o <<".GIT">>, Name(<<"config">>, ".txt"))
Shot == Path(SOURCE, Name(<<"Screenshot", "Chrome">>, ".PNG"))

File(content, month) == [content |-> content, month |-> month]

\* the files on the disk, the index file of the destination among them
WithIndexFile(fs, disk, destination) ==
    IF disk.kind = "absent"
    THEN fs
    ELSE [p \in DOMAIN fs \cup {Path(destination, INDEX_FILENAME)} |->
             IF p \in DOMAIN fs THEN fs[p] ELSE File("c1", "2024-01")]

F5 == Path(SOURCE, INDEX_FILENAME)

\* the source holds F1, F2, F4 and F5, and possibly F3
InitialFiles ==
    {[p \in {F1, F2, F4, F5} \cup three |->
         IF p = F2 THEN File(c2, "2024-01")
         ELSE IF p = F3 THEN File("c3", "2024-01")
         ELSE File("c1", "2024-01")] :
       three \in {{}, {F3}}, c2 \in {"c1", "c2"}}

InitialDirs(fs) ==
    UNION {Ancestors(p.dir) : p \in DOMAIN fs}
    \cup {SOURCE, SOURCE \o <<"old">>, SOURCE \o <<"old", "tmp">>}

\* what the environment may drop into the source between two passes
Drops == {<<Shot, File("c1", "2024-02")>>, <<F1, File("c3", "2024-01")>>}

BucketDefault == F1

PassInit ==
    /\ cfg \in [destination : {DestInside, DestOutside}, dry_run : BOOLEAN,
                 recursive : BOOLEAN, keep_empty : BOOLEAN,
                 sort_mode : {"date", "source"}]
    /\ files \in InitialFiles
    /\ dirs = InitialDirs(files)
    /\ disk_index = [kind |-> "absent", data |-> EmptyIndex]
    /\ pc = "start"
    /\ index = EmptyIndex
    /\ todo = {}
    /\ log = <<>>
    /\ moved = 0
    /\ duplicates = 0
    /\ pre = [files |-> files, dirs |-> dirs, disk |-> disk_index, snapshot |-> {},
              added |-> FALSE, prev_clean |-> TRUE]
    /\ hist = [passes |-> 0, adds |-> 0, faults |-> 0, added |-> FALSE,
               interfered |-> FALSE, reported |-> FALSE,
               prev_clean |-> TRUE, fatal |-> "none"]

Init ==
    /\ PassInit
    /\ bk_in = BucketDefault
    /\ bk_out = ""

----------------------------------------------------------------------------
(* organize_pass and watch_loop *)

Entry(path, r, fail) ==
    [path |-> path, status |-> r.status,
     digest |-> r.digest, month |-> r.month, known |-> r.known, live |-> r.live,
     want |-> r.want, target |-> r.target,
     indexed |-> IF r.digest = "" THEN NoPath ELSE r.index[r.digest],
     cause |-> IF ~r.raised THEN "none"
               ELSE IF path \notin DOMAIN files THEN "vanished"
               ELSE IF fail = "hash" THEN "hash"
               ELSE IF index = NotADict THEN "index"
               ELSE fail]

\* organize_pass up to the snapshot of the candidates: mkdir of the destination,
\* load_index, list(list_candidate_files(...))
StartPass ==
    /\ pc \in {"start", "sleeping"}
    /\ hist.passes < MaxPasses
    /\ ~load_index_raises(disk_index)
    /\ pre' = [files |-> files, dirs |-> dirs, disk |-> disk_index,
               snapshot |-> list_candidate_files(files, SOURCE, cfg.destination,
                                                 cfg.recursive),
               added |-> hist.added, prev_clean |-> hist.prev_clean]
    /\ dirs' = dirs \cup Ancestors(cfg.destination)
    /\ index' = load_index(disk_index)
    /\ todo' = list_candidate_files(files, SOURCE, cfg.destination, cfg.recursive)
    /\ log' = <<>>
    /\ moved' = 0
    /\ duplicates' = 0
    /\ pc' = "running"
    /\ hist' = [hist EXCEPT !.added = FALSE, !.interfered = FALSE]
    /\ UNCHANGED <<cfg, files, disk_index, bk_in, bk_out>>

\* the process is gone, and its memory with it
ProcessEnds ==
    /\ index' = EmptyIndex
    /\ todo' = {}
    /\ log' = <<>>
    /\ moved' = 0
    /\ duplicates' = 0

\* config.destination.mkdir raises and the loop goes on to its sleep
DestinationUnwritable_swallowed ==
    /\ pc \in {"start", "sleeping"}
    /\ hist.passes < MaxPasses
    /\ pc' = "sleeping"
    /\ hist' = [hist EXCEPT !.fatal = "destination"]
    /\ UNCHANGED <<cfg, files, dirs, disk_index, index, todo, log, moved,
                   duplicates, pre, bk_in, bk_out>>

\* config.destination.mkdir raises: the exception leaves organize_pass and,
\* uncaught, watch_loop
DestinationUnwritable ==
    /\ pc \in {"start", "sleeping"}
    /\ hist.passes < MaxPasses
    /\ pc' = "crashed"
    /\ hist' = [hist EXCEPT !.fatal = "destination"]
    /\ ProcessEnds
    /\ UNCHANGED <<cfg, files, dirs, disk_index, pre, bk_in, bk_out>>

\* load_index raises, after the mkdir of the destination: the exception leaves
\* organize_pass and, uncaught, watch_loop
IndexUnreadable ==
    /\ pc \in {"start", "sleeping"}
    /\ hist.passes < MaxPasses
    /\ load_index_raises(disk_index)
    /\ dirs' = dirs \cup Ancestors(cfg.destination)
    /\ pc' = "crashed"
    /\ hist' = [hist EXCEPT !.fatal = "index"]
    /\ ProcessEnds
    /\ UNCHANGED <<cfg, files, disk_index, pre, bk_in, bk_out>>

\* the pc after the except clause of the loop over the candidates
AfterFileError_abort == "crashed"

AfterFileError == "running"

\* one iteration of the loop over the snapshot
ProcessFile(path, fail) ==
    /\ pc = "running"
    /\ path \in NextCandidates(todo)
    /\ fail # "none" => hist.faults < MaxFaults /\ path \in DOMAIN files
    /\ fail \in {"mkdir", "move"} => ~cfg.dry_run /\ index # NotADict
    /\ LET r == organize_file(files, dirs, index, path, cfg, fail)
       IN  /\ files' = r.files
           /\ dirs' = r.dirs
           /\ index' = r.index
           /\ log' = Append(log, Entry(path, r, fail))
           /\ moved' = IF r.status = "moved" THEN moved + 1 ELSE moved
           /\ duplicates' = IF r.status = "duplicate" THEN duplicates + 1
                             ELSE duplicates
           /\ pc' = IF r.raised THEN AfterFileError ELSE "running"
    /\ todo' = todo \ {path}
    /\ hist' = [hist EXCEPT !.faults = IF fail = "none" THEN @ ELSE @ + 1]
    /\ UNCHANGED <<cfg, disk_index, pre, bk_in, bk_out>>

\* the end of organize_pass (save_index, prune_empty_dirs, return) and, in
\* watch_loop, the report of the cycle and the start of the sleep
FinishPass ==
    /\ pc = "running"
    /\ todo = {}
    /\ disk_index' = save_index(disk_index, index, cfg.dry_run)
    /\ dirs' = prune_empty_dirs(
                   WithIndexFile(files, save_index(disk_index, index, cfg.dry_run),
                                 cfg.destination),
                   dirs, SOURCE, cfg.keep_empty)
    /\ pc' = "sleeping"
    /\ hist' = [hist EXCEPT !.passes = @ + 1,
                            !.reported = (moved # 0 \/ duplicates # 0),
                            !.prev_clean = \A i \in 1..Len(log) :
                                              log[i].status # "error"]
    /\ UNCHANGED <<cfg, files, index, todo, log, moved, duplicates, pre,
                   bk_in, bk_out>>

\* KeyboardInterrupt during time.sleep
Interrupt ==
    /\ pc = "sleeping"
    /\ pc' = "stopped"
    /\ ProcessEnds
    /\ UNCHANGED <<cfg, files, dirs, disk_index, pre, hist, bk_in, bk_out>>

----------------------------------------------------------------------------
(* The environment *)

\* a file appears in the source while the loop sleeps
AddFile(path, file) ==
    /\ pc = "sleeping"
    /\ hist.adds < MaxAdds
    /\ path \notin DOMAIN files
    /\ files' = [p \in DOMAIN files \cup {path} |->
                    IF p = path THEN file ELSE files[p]]
    /\ dirs' = dirs \cup Ancestors(path.dir)
    /\ hist' = [hist EXCEPT !.adds = @ + 1, !.added = TRUE]
    /\ UNCHANGED <<cfg, disk_index, pc, index, todo, log, moved, duplicates,
                   pre, bk_in, bk_out>>

\* a candidate vanishes after the snapshot, or a placed file is deleted while
\* the loop sleeps (nothing else touches the destination tree during a pass)
RemoveFile(path) ==
    /\ hist.faults < MaxFaults
    /\ path \in DOMAIN files
    /\ \/ pc = "running" /\ path \in todo
       \/ pc = "sleeping" /\ IsPrefix(cfg.destination, path.dir)
    /\ files' = [p \in DOMAIN files \ {path} |-> files[p]]
    /\ hist' = [hist EXCEPT !.faults = @ + 1, !.interfered = TRUE]
    /\ UNCHANGED <<cfg, dirs, disk_index, pc, index, todo, log, moved,
                   duplicates, pre, bk_in, bk_out>>

\* the program is launched on a destination whose index file is damaged
CorruptIndex(kind) ==
    /\ pc = "start"
    /\ hist.faults < MaxFaults
    /\ disk_index.kind = "absent"
    /\ disk_index' = [kind |-> kind, data |-> EmptyIndex]
    /\ dirs' = dirs \cup Ancestors(cfg.destination)
    /\ hist' = [hist EXCEPT !.faults = @ + 1]
    /\ UNCHANGED <<cfg, files, pc, index, todo, log, moved, duplicates, pre,
                   bk_in, bk_out>>

FailKinds == {"none", "hash", "mkdir", "move"}

Next ==
    \/ StartPass
    \/ DestinationUnwritable
    \/ IndexUnreadable
    \/ \E path \in todo, fail \in FailKinds : ProcessFile(path, fail)
    \/ FinishPass
    \/ Interrupt
    \/ \E d \in Drops : AddFile(d[1], d[2])
    \/ \E path \in DOMAIN files : RemoveFile(path)
    \/ \E kind \in IndexKinds \ {"absent", "json"} : CorruptIndex(kind)

Spec == Init /\ [][Next]_vars

----------------------------------------------------------------------------
(* source_bucket as a function of its input *)

Tokens == {"WhatsApp", "telegram", "Discord", "slack", "Screenshot", "screen shot",
           "Snip", "IMG_", "dsc_", "PXL_", "Chrome", "knowledge", "Firefox",
           "Zoom", "meeting", "Teams", "report"}

BucketStems == UNION {[1..n -> Tokens] : n \in 1..MaxStem}

BucketDirs == {SOURCE, SOURCE \o <<"WhatsApp Images">>, SOURCE \o <<"Chrome">>,
               SOURCE \o <<"Zoom">>, SOURCE \o <<"slack">>, <<"telegram">>,
               <<"knowledge", "Discord">>}

BucketExts == {".PNG", ".crdownload", ".PART", ".Torrent", ".txt"}

BucketInit ==
    /\ bk_in \in {Path(d, Name(st, e)) : d \in BucketDirs, st \in BucketStems,
                                          e \in BucketExts}
    /\ bk_out = ""
    /\ cfg = [destination |-> DestInside, dry_run |-> FALSE, recursive |-> TRUE,
              keep_empty |-> FALSE, sort_mode |-> "source"]
    /\ files = [p \in {F1} |-> File("c1", "2024-01")]
    /\ dirs = InitialDirs(files)
    /\ disk_index = [kind |-> "absent", data |-> EmptyIndex]
    /\ pc = "start"
    /\ index = EmptyIndex
    /\ todo = {}
    /\ log = <<>>
    /\ moved = 0
    /\ duplicates = 0
    /\ pre = [files |-> files, dirs |-> dirs, disk |-> disk_index, snapshot |-> {},
              added |-> FALSE, prev_clean |-> TRUE]
    /\ hist = [passes |-> 0, adds |-> 0, faults |-> 0, added |-> FALSE,
               interfered |-> FALSE, reported |-> FALSE,
               prev_clean |-> TRUE, fatal |-> "none"]

CallSourceBucket ==
    /\ bk_out = ""
    /\ bk_out' = source_bucket(bk_in)
    /\ UNCHANGED <<bk_in, cfg, files, dirs, disk_index, pc, index, todo, log,
                   moved, duplicates, pre, hist>>

BucketNext == CallSourceBucket

SpecBucket == BucketInit /\ [][BucketNext]_vars

\* the tag of the first rule of an ordered list of <<predicate, tag>> that matches
FirstMatch(rules) ==
    LET i == CHOOSE k \in 1..Len(rules) :
                 rules[k][1] /\ \A j \in 1..(k - 1) : ~rules[j][1]
    IN  rules[i][2]

Either(path, needle) ==
    NameContains(path.name, needle) \/ ParentContains(path.dir, needle)

\* rules 1 to 4, 6 and 8 of the ordered list, as <<predicate, tag>>
RuleWhatsapp(path) == <<Either(path, "whatsapp"), "whatsapp">>
RuleTelegram(path) == <<Either(path, "telegram"), "telegram">>
RuleDiscord(path) == <<Either(path, "discord"), "discord">>
RuleSlack(path) == <<Either(path, "slack"), "slack">>
RuleScreenshots(path) ==
    <<\/ NameStartsWith(path.name, "screenshot")
      \/ NameStartsWith(path.name, "snip")
      \/ NameContains(path.name, "screen shot"), "screenshots">>
RuleCamera(path) ==
    <<\E pre_ \in {"img_", "dsc_", "pxl_"} : NameStartsWith(path.name, pre_),
      "camera_exports">>
RulePartial(path) ==
    <<Lower(path.name.ext) \in {".crdownload", ".part"}, "browser_partial_downloads">>
RuleTorrent(path) == <<Lower(path.name.ext) = ".torrent", "torrent">>
RuleDefault == <<TRUE, "manual_or_unknown">>

\* the list with rules 5 and 7 on the filename or the path
RulesNameOrPath(path) ==
    <<RuleWhatsapp(path), RuleTelegram(path), RuleDiscord(path), RuleSlack(path),
      RuleScreenshots(path), RuleCamera(path),
      <<\E w \in {"chrome", "edge", "firefox"} : Either(path, w), "browser_downloads">>,
      RulePartial(path),
      <<\E w \in {"zoom", "meeting", "teams"} : Either(path, w), "meetings">>,
      RuleTorrent(path), RuleDefault>>

\* the list with rules 5 and 7 on the filename alone
RulesNameOnly(path) ==
    <<RuleWhatsapp(path), RuleTelegram(path), RuleDiscord(path), RuleSlack(path),
      RuleScreenshots(path), RuleCamera(path),
      <<\E w \in {"chrome", "edge", "firefox"} : NameContains(path.name, w),
        "browser_downloads">>,
      RulePartial(path),
      <<\E w \in {"zoom", "meeting", "teams"} : NameContains(path.name, w),
        "meetings">>,
      RuleTorrent(path), RuleDefault>>

\* C9 as stated: in source sort mode the bucket is the tag of the first matching
\* rule of the ordered list, where rule 5 (browser_downloads) and rule 7
\* (meetings) match on the filename or the path.
C9_FirstMatchNameOrPath ==
    bk_out # "" => bk_out = FirstMatch(RulesNameOrPath(bk_in))

\* C9 amended: the bucket is the tag of the first matching rule of the ordered
\* list, where rules 5 and 7 match on the filename alone; a later rule never
\* overrides an earlier match.
C9_FirstMatchNameOnly ==
    bk_out # "" => bk_out = FirstMatch(RulesNameOnly(bk_in))

\* C9 witness: a screenshot whose name and path both contain "chrome" is
\* classified by the earlier rule.
C9_Witness ==
    /\ bk_out = "screenshots"
    /\ NameContains(bk_in.name, "chrome")
    /\ ParentContains(bk_in.dir, "chrome")

----------------------------------------------------------------------------
(* Properties of a pass *)

\* nothing but the pass itself has touched the disk since the pass started
Quiet == ~hist.interfered /\ ~hist.added

\* the pass has returned and the loop sleeps
PassDone == pc = "sleeping"

Succeeded(e) == e.status # "error"

NoErrors == \A i \in 1..Len(log) : Succeeded(log[i])

\* the directory organize_file is to place the candidate of a log entry in
CategoryDir(e) ==
    cfg.destination \o <<classify_file(e.path),
                         IF cfg.sort_mode = "source" THEN source_bucket(e.path)
                         ELSE e.month>>

DuplicatesDir(e) ==
    cfg.destination \o <<"duplicates",
                         IF cfg.sort_mode = "source" THEN source_bucket(e.path)
                         ELSE e.month>>

\* C1 as stated: a dry-run pass mutates nothing on disk; the files, the
\* directories and the persisted index are after the pass as they were before.
C1_DryRunMutatesNothing ==
    (PassDone /\ cfg.dry_run /\ Quiet)
        => /\ files = pre.files
           /\ dirs = pre.dirs
           /\ disk_index = pre.disk

\* the counts a real pass returns from the given disk and index when it
\* processes the candidates order[i..] in that order
RECURSIVE RealCounts(_, _, _, _, _, _, _)
RealCounts(fs, ds, idx, order, i, m, d) ==
    IF i > Len(order)
    THEN <<m, d>>
    ELSE LET r == organize_file(fs, ds, idx, order[i],
                                [cfg EXCEPT !.dry_run = FALSE], "none")
         IN  RealCounts(r.files, r.dirs, r.index, order, i + 1,
                        IF r.status = "moved" THEN m + 1 ELSE m,
                        IF r.status = "duplicate" THEN d + 1 ELSE d)

\* C2 as stated: from the same filesystem and persisted index a dry-run pass
\* returns the same (moved, duplicates) counts as a real pass would.
C2_DryRunCountsMatchReal ==
    (PassDone /\ cfg.dry_run /\ Quiet /\ NoErrors)
        => <<moved, duplicates>> =
               RealCounts(pre.files, pre.dirs \cup Ancestors(cfg.destination),
                          load_index(pre.disk),
                          [i \in 1..Len(log) |-> log[i].path], 1, 0, 0)

\* C3 as stated: of two distinct candidates with the same content processed in
\* one pass while the index has no live entry for that content, the first is
\* moved into its category bucket, the second is a duplicate routed to the
\* duplicates bucket, and the index entry stays the first file's final path.
C3_FirstMovedSecondDuplicate ==
    \A i, j \in 1..Len(log) :
        (/\ i < j
         /\ ~hist.interfered
         /\ Succeeded(log[i]) /\ Succeeded(log[j])
         /\ log[i].digest = log[j].digest
         /\ ~log[i].live
         /\ \A k \in 1..(i - 1) : log[k].digest # log[i].digest)
        => /\ log[i].status = "moved"
           /\ log[i].target.dir = CategoryDir(log[i])
           /\ log[j].status = "duplicate"
           /\ log[j].target.dir = DuplicatesDir(log[j])
           /\ log[j].indexed = log[i].target
           /\ pc \in {"running", "sleeping"} => index[log[i].digest] = log[i].target

\* the same for real passes alone (not a claim: what remains true of C3)
RealFirstMovedSecondDuplicate == ~cfg.dry_run => C3_FirstMovedSecondDuplicate

SameWantBefore(j) ==
    {i \in 1..(j - 1) : Succeeded(log[i]) /\ log[i].want = log[j].want}

\* the number of the collision suffix of a placed path (0: the plain name)
SuffixNo(e) ==
    IF e.target = e.want THEN 0 ELSE e.target.name.sfx[Len(e.target.name.sfx)]

\* the n-th name of the sequence plain, " (1)", " (2)", ...
NthName(want, n) == IF n = 0 THEN want ELSE Suffixed(want, n)

\* C5 as stated: in real mode, when k files with different content resolve to
\* the same free destination path, all k exist afterwards with their own
\* content, the first under the plain name, the second under " (1)", the third
\* under " (2)", and so on.
C5_SuffixIsArrivalRank ==
    (pc \in {"running", "sleeping"} /\ ~cfg.dry_run /\ Quiet)
        => \A j \in 1..Len(log) :
              (/\ Succeeded(log[j])
               /\ log[j].want \notin DOMAIN pre.files
               /\ \A i \in SameWantBefore(j) : log[i].digest # log[j].digest)
              => /\ log[j].target = NthName(log[j].want, Cardinality(SameWantBefore(j)))
                 /\ log[j].target \in DOMAIN files
                 /\ Digest(files[log[j].target].content) = log[j].digest

\* the files on disk when entry j was about to be placed: those of the start
\* of the pass that are still there, and those placed before j
HeldBefore(j) ==
    (DOMAIN pre.files \cap DOMAIN files)
    \cup {log[i].target : i \in {k \in 1..(j - 1) : Succeeded(log[k])}}

\* C5 amended: in real mode no move overwrites an existing file: every file is
\* placed under the first name not already taken, in the order plain, " (1)",
\* " (2)", ...; so when k files with different content resolve to the same
\* destination path, all k exist afterwards with their own content, under
\* names whose n increases in the order of processing (n is not the rank of
\* the file when another file already holds one of those names).
C5_FirstFreeName ==
    (pc \in {"running", "sleeping"} /\ ~cfg.dry_run /\ Quiet)
        => /\ \A p \in DOMAIN pre.files :
                 p \in DOMAIN files
                 \/ \E i \in 1..Len(log) : log[i].path = p
           /\ \A p \in DOMAIN pre.files \cap DOMAIN files :
                 files[p] = pre.files[p]
           /\ \A j \in 1..Len(log) :
                 Succeeded(log[j])
                 => /\ log[j].target \in DOMAIN files
                    /\ Digest(files[log[j].target].content) = log[j].digest
                    /\ log[j].target \notin DOMAIN pre.files
                    /\ \E n \in 0..Cardinality(DOMAIN files) :
                          /\ log[j].target = NthName(log[j].want, n)
                          /\ \A m \in 0..(n - 1) :
                                NthName(log[j].want, m) \in HeldBefore(j)
                    /\ \A i \in 1..(j - 1) :
                          Succeeded(log[i]) => log[i].target # log[j].target
                    /\ \A i \in SameWantBefore(j) : SuffixNo(log[i]) < SuffixNo(log[j])

\* C5 witness: three files of different content placed under the plain name,
\* " (1)" and " (2)" of one destination path, the last of them in this pass.
C5_Witness ==
    /\ pc \in {"running", "sleeping"} /\ ~cfg.dry_run /\ Quiet
    /\ \E j \in 1..Len(log) :
          /\ Succeeded(log[j])
          /\ log[j].target = Suffixed(log[j].want, 2)
          /\ {log[j].want, Suffixed(log[j].want, 1), log[j].target} \subseteq DOMAIN files
          /\ Cardinality({files[log[j].want].content,
                          files[Suffixed(log[j].want, 1)].content,
                          files[log[j].target].content}) = 3

\* C6: when the index maps a fingerprint to a path that is not on disk, the
\* next candidate with that fingerprint is 'moved', not 'duplicate', goes to
\* its category bucket, and the index entry becomes the candidate's final path.
C6_StaleEntryHeals ==
    \A i \in 1..Len(log) :
        (Succeeded(log[i]) /\ log[i].known # NoPath /\ ~log[i].live)
        => /\ log[i].status = "moved"
           /\ log[i].target.dir = CategoryDir(log[i])
           /\ log[i].indexed = log[i].target
           /\ (i = Len(log) /\ pc = "running")
                 => index[log[i].digest] = log[i].target
           /\ (i = Len(log) /\ pc = "running" /\ ~cfg.dry_run /\ Quiet)
                 => /\ log[i].target \in DOMAIN files
                    /\ Digest(files[log[i].target].content) = log[i].digest

\* C6 witness: in a real pass, a candidate whose fingerprint the index maps to
\* a file that has been deleted has been processed.
C6_Witness ==
    /\ ~cfg.dry_run
    /\ \E i \in 1..Len(log) :
          /\ Succeeded(log[i])
          /\ log[i].known # NoPath /\ ~log[i].live
          /\ log[i].indexed # log[i].known

NoEmptyDirUnder(root) ==
    \A d \in dirs :
        (IsPrefix(root, d) /\ d # root)
        => ~IsEmptyDir(WithIndexFile(files, disk_index, cfg.destination), dirs, d)

Count(status) == Cardinality({i \in 1..Len(log) : log[i].status = status})

\* C7: a failure on one candidate never aborts the pass: every candidate of
\* the snapshot is processed, the index is saved, the source is pruned, and
\* the counts returned count exactly the candidates processed successfully.
C7_FailureNeverAborts ==
    /\ (\E i \in 1..Len(log) : ~Succeeded(log[i])) => pc \in {"running", "sleeping"}
    /\ pc = "running"
         => /\ {log[i].path : i \in 1..Len(log)} \cup todo = pre.snapshot
            /\ Len(log) + Cardinality(todo) = Cardinality(pre.snapshot)
    /\ PassDone
         => /\ {log[i].path : i \in 1..Len(log)} = pre.snapshot
            /\ Len(log) = Cardinality(pre.snapshot)
            /\ moved = Count("moved")
            /\ duplicates = Count("duplicate")
            /\ moved + duplicates + Count("error") = Len(log)
            /\ ~cfg.dry_run
                  => /\ disk_index.kind \in {"json", "not_object"}
                     /\ index # NotADict
                           => disk_index = [kind |-> "json", data |-> index]
            /\ (~cfg.keep_empty /\ Quiet) => NoEmptyDirUnder(SOURCE)

\* C7 witness: a pass has returned in which a candidate failed and a later
\* candidate was processed successfully.
C7_Witness ==
    /\ PassDone
    /\ ~cfg.dry_run
    /\ \E i, j \in 1..Len(log) :
          i < j /\ ~Succeeded(log[i]) /\ Succeeded(log[j])

\* C8 as stated: a failure to create the destination root, or to create the
\* category/bucket directory of a file being placed, ends the pass with the
\* error instead of being recorded as a per-file error.
C8_DirectoryFailureIsFatal ==
    /\ hist.fatal = "destination" => pc = "crashed"
    /\ (\E i \in 1..Len(log) : log[i].cause = "mkdir") => pc = "crashed"

\* C8 amended: a failure to create the destination root ends the pass with
\* the error; a failure to create the category/bucket directory of a file
\* being placed is recorded as a per-file error and the pass continues with
\* the next candidate.
C8_OnlyDestinationRootIsFatal ==
    /\ hist.fatal = "destination" => (pc = "crashed" /\ todo = {} /\ log = <<>>)
    /\ pc = "crashed" => hist.fatal \in {"destination", "index"}
    /\ \A i \in 1..Len(log) :
          log[i].cause = "mkdir"
          => /\ log[i].status = "error"
             /\ pc \in {"running", "sleeping"}
             /\ PassDone => Len(log) = Cardinality(pre.snapshot)

\* C8 witness: a pass has returned in which the bucket directory of one
\* candidate could not be created and a later candidate was placed.
C8_Witness ==
    /\ PassDone
    /\ \E i, j \in 1..Len(log) :
          i < j /\ log[i].cause = "mkdir" /\ Succeeded(log[j])

\* C10 as stated: the watch loop never stops on its own: it is in a pass, or
\* asleep after one, whatever the outcome of the pass, or it was interrupted;
\* and a cycle is reported only when moved or duplicates is nonzero.
C10_OnlyInterruptionEndsLoop ==
    /\ pc \in {"start", "running", "sleeping", "stopped"}
    /\ (pc = "sleeping" /\ hist.reported) => (moved # 0 \/ duplicates # 0)

\* the pass treats its candidates as it does on an empty index: none fails on
\* the index, the first candidate of each content is 'moved' with nothing
\* known about it, and a real pass leaves a JSON object that maps the
\* fingerprint of every candidate placed
TreatedAsEmpty ==
    /\ \A i \in 1..Len(log) : log[i].cause # "index"
    /\ \A i \in 1..Len(log) :
          (/\ Succeeded(log[i])
           /\ \A k \in 1..(i - 1) : log[k].digest # log[i].digest)
          => log[i].status = "moved" /\ log[i].known = NoPath
    /\ (PassDone /\ ~cfg.dry_run)
          => /\ disk_index.kind = "json"
             /\ \A i \in 1..Len(log) :
                   Succeeded(log[i]) => disk_index.data[log[i].digest] # NoPath

\* C11 as stated: a missing or malformed persisted index file is never fatal
\* and never makes a file fail: load_index yields an empty index, the
\* candidates of the pass are processed as new content, and a real pass ends
\* by writing a well-formed fingerprint-to-path index in its place.
C11_BadIndexIsHarmless ==
    /\ hist.fatal # "index"
    /\ (pc \in {"running", "sleeping"} /\ pre.disk.kind # "json") => TreatedAsEmpty

\* the same for an index file that is missing or is not JSON text (not a
\* claim: what remains true of C11)
UnparsableIndexIsHarmless ==
    (pc \in {"running", "sleeping"} /\ pre.disk.kind \in {"absent", "malformed"})
        => TreatedAsEmpty

\* a file lies in d or below it
HoldsFile(fs, d) == \E p \in DOMAIN fs : IsPrefix(d, p.dir)

\* C12: prune_empty_dirs(root, keep_empty = false) removes directories deepest
\* first: when it returns no empty directory remains under root, chains of
\* nested empty directories included, while root, every file and every
\* directory that holds a file stay, and nothing outside root is removed; with
\* keep_empty = true nothing is removed.
C12_PruneDeepestFirst ==
    [][(pc = "running" /\ pc' = "sleeping")
          => /\ files' = files
             /\ SOURCE \in dirs'
             /\ dirs' \subseteq dirs
             /\ cfg.keep_empty => dirs' = dirs
             /\ ~cfg.keep_empty
                   => /\ NoEmptyDirUnder(SOURCE)'
                      /\ \A d \in dirs :
                            HoldsFile(WithIndexFile(files, disk_index', cfg.destination), d)
                            => d \in dirs'
                      /\ \A d \in dirs \ dirs' : IsPrefix(SOURCE, d) /\ d # SOURCE
      ]_vars

\* C12 witness: a pass has returned whose pruning removed the chain of empty
\* directories old/tmp and a directory the moves had emptied, and kept the
\* source and a directory that holds a file.
C12_Witness ==
    /\ PassDone /\ Quiet /\ ~cfg.keep_empty /\ ~cfg.dry_run
    /\ {SOURCE \o <<"old">>, SOURCE \o <<"old", "tmp">>, F2.dir} \subseteq pre.dirs
    /\ {SOURCE \o <<"old">>, SOURCE \o <<"old", "tmp">>, F2.dir} \cap dirs = {}
    /\ F2 \in DOMAIN pre.files /\ F2 \notin DOMAIN files
    /\ {SOURCE, F4.dir} \subseteq dirs
    /\ F4 \in DOMAIN files

====
